---- MODULE Spec2Model ----
(***************************************************************************)
(* Model of src/subjects/memory_pointers/memory_technique.hpp.             *)
(*                                                                         *)
(* Spec      : the execution of memoryAllocationDemo, one action per       *)
(*             statement, called repeatedly by a caller that supplies the  *)
(*             four arguments.  It describes the routine as translated:    *)
(*             each creation expression runs the constructor it names.     *)
(*             Storage requests are taken to succeed, and the number of    *)
(*             calls stays far below the range of int.                     *)
(* SpecType  : the creation of ResourceManager objects by a requesting     *)
(*             context: the access check of the constructor the creation   *)
(*             form needs, then construction, then release.                *)
(***************************************************************************)
EXTENDS Integers, Sequences, FiniteSets, TLC

\* ---------------------------------------------------------------- bounds
MaxCalls == 3
MaxVal == 1
MaxHandle == 43
MaxArrayLen == 11

\* ------------------------------------------------------- program constants
GlobalVariableInit == 1
FileLocalVariableInit == 2
HardwareRegisterInit == 4
ImmutableGlobalInit == 5
PersistentCounterInit == 6
ArrayLen == 10
MallocLen == 10
SingleHandle == 10
AutomaticHandle == 20
EfficientSharedValue == 42
TwoStepSharedValue == 24
ExclusiveValue == 36

\* int stackArray[3] = {0, 1}: the elements past the initializer list are 0.
StackArrayInit == <<0, 1, 0>>

Vals == 0..MaxVal
Cells == {"x", "y"}

\* A field that holds a value v is <<v>>; a field never initialized is <<>>.
Some(v) == <<v>>
Indeterminate == <<>>

\* ------------------------------------------------------ class ResourceManager
\* const int instanceId = 5;  (the default member initializer)
InstanceIdInitMutant == 5 + 1
InstanceIdInit == 5

\* ResourceManager(int handle)
CtorHandle(handle) ==
  [instanceId |-> Some(InstanceIdInit), resourceHandle |-> Some(handle)]

\* ResourceManager()
CtorDefault ==
  [instanceId |-> Some(InstanceIdInit), resourceHandle |-> Indeterminate]

\* storage of one ResourceManager on which no constructor has run
RawObject == [instanceId |-> Indeterminate, resourceHandle |-> Indeterminate]

\* ------------------------------------------------------------------ state
VARIABLES
  pc,                     \* the statement of memoryAllocationDemo to run next
  calls,                  \* completed calls
  args,                   \* the four arguments of the call
  mem,                    \* the caller's integers the pointers and the reference designate
  entry,                  \* mem and the namespace-scope values as they were at the call
  retval,                 \* the value the last completed call returned
  persistentCounter,
  stackArray,
  globalVariable,
  fileLocalVariable,
  hardwareRegister,
  immutableGlobal,
  sharedInstanceCounter,
  heap,                   \* live storage: id -> [form, n]
  objects,                \* ResourceManager objects in live storage: id -> sequence of fields
  ints,                   \* int objects in live storage: id -> value
  useCount,               \* owners of each shared_ptr managed object
  ctorRuns,               \* ResourceManager constructor runs of this call, by creation site
  dtorRuns,               \* ResourceManager destructor runs of this call, by creation site
  trace,                  \* releases, the increment and the read of the result, in order
  faults,                 \* undefined behaviour met so far
  req,                    \* SpecType: the creation request
  stage,                  \* SpecType: requested, rejected, accepted, constructed, released
  made                    \* SpecType: the objects the request yielded

globals ==
  <<globalVariable, fileLocalVariable, hardwareRegister, immutableGlobal,
    sharedInstanceCounter>>

routineVars ==
  <<pc, calls, args, mem, entry, retval, persistentCounter, stackArray, heap,
    objects, ints, useCount, ctorRuns, dtorRuns, trace, faults>>

typeVars == <<req, stage, made>>

vars == <<routineVars, globals, typeVars>>

Sites ==
  {"singleHeapObject", "heapObjectArray", "uninitializedMemoryBlock", "automaticObject"}

NoRuns == [s \in Sites |-> 0]

NoArgs ==
  [stackCopyParam |-> 0, readOnlyDataPtr |-> "x", fixedAddressPtr |-> "x",
   referenceAlias |-> "x"]

Snapshot(m) == [mem |-> m, globals |-> globals]

InitGlobals ==
  /\ globalVariable = GlobalVariableInit
  /\ fileLocalVariable = FileLocalVariableInit
  /\ hardwareRegister = HardwareRegisterInit
  /\ immutableGlobal = ImmutableGlobalInit
  /\ sharedInstanceCounter = 0

InitRoutine ==
  /\ pc = "idle"
  /\ calls = 0
  /\ args = NoArgs
  /\ mem \in [Cells -> Vals]
  /\ entry = Snapshot(mem)
  /\ retval = <<>>
  /\ persistentCounter = PersistentCounterInit
  /\ stackArray = <<>>
  /\ heap = <<>>
  /\ objects = <<>>
  /\ ints = <<>>
  /\ useCount = <<>>
  /\ ctorRuns = NoRuns
  /\ dtorRuns = NoRuns
  /\ trace = <<>>
  /\ faults = {}

InitTypeIdle ==
  /\ req = [ctx |-> "none", form |-> "none", handle |-> 0, n |-> 0]
  /\ stage = "none"
  /\ made = <<>>

Init == InitGlobals /\ InitRoutine /\ InitTypeIdle

\* ------------------------------------------------- storage and its release
\* the release form each acquisition form requires
MatchingRelease(form) ==
  CASE form = "new" -> "delete"
    [] form = "new[]" -> "delete[]"
    [] form = "malloc" -> "free"
    [] form = "make_shared" -> "control_block"
    [] form = "control_block" -> "control_block"
    [] form = "automatic" -> "scope_exit"

Without(f, id) == [a \in DOMAIN f \ {id} |-> f[a]]

Acquire(h, id, form, n) == h @@ (id :> [form |-> form, n |-> n])

ReleaseFaults(h, id, by) ==
  IF id \notin DOMAIN h THEN {"double_release"}
  ELSE IF MatchingRelease(h[id].form) # by THEN {"mismatched_release"}
  ELSE {}

\* the record of a release: the storage, how it was acquired, how it is released
Released(h, id, by) ==
  [ev |-> "release", id |-> id,
   form |-> IF id \in DOMAIN h THEN h[id].form ELSE "none", by |-> by]

\* the record of a step that releases nothing
Event(ev, id) == [ev |-> ev, id |-> id, form |-> "", by |-> ""]

\* every delete expression destroying one object, whatever its form
DestroyedFirstOnly(h, id, by) ==
  CASE by = "delete" -> 1
    [] by = "delete[]" -> 1
    [] by = "scope_exit" -> 1
    [] by = "free" -> 0
    [] by = "control_block" -> 0

\* the objects a release form destroys in storage id: delete destroys one,
\* delete[] as many as the array holds, scope exit the one object, free none
Destroyed(h, id, by) ==
  CASE by = "delete" -> 1
    [] by = "delete[]" -> IF id \in DOMAIN h THEN h[id].n ELSE 0
    [] by = "scope_exit" -> 1
    [] by = "free" -> 0
    [] by = "control_block" -> 0

\* a delete expression, a free or a scope exit on a ResourceManager site
ReleaseSite(id, by) ==
  /\ dtorRuns' = [dtorRuns EXCEPT ![id] = @ + Destroyed(heap, id, by)]
  /\ faults' = faults \cup ReleaseFaults(heap, id, by)
  /\ heap' = Without(heap, id)
  /\ objects' = Without(objects, id)
  /\ trace' = Append(trace, Released(heap, id, by))

\* ------------------------------------------------------ memoryAllocationDemo
\* the same statements with the two delete expressions in the other order
StatementsSwapped ==
  <<"idle", "L55", "L58", "L63", "L66", "L69", "L74", "L78", "L82", "L86",
    "L92", "L91", "L93", "L97", "L98", "~automaticObject",
    "~exclusiveOwnershipInt", "~twoStepSharedInt", "~efficientSharedInt", "exit">>

\* the statements of the body by line, then the destructors of the automatic
\* objects in reverse order of declaration, then the return to the caller
Statements ==
  <<"idle", "L55", "L58", "L63", "L66", "L69", "L74", "L78", "L82", "L86",
    "L91", "L92", "L93", "L97", "L98", "~automaticObject",
    "~exclusiveOwnershipInt", "~twoStepSharedInt", "~efficientSharedInt", "exit">>

Position(label) == CHOOSE i \in 1..Len(Statements) : Statements[i] = label

Follow(label) ==
  IF Position(label) = Len(Statements) THEN Statements[1]
  ELSE Statements[Position(label) + 1]

\* the caller passes a value, two pointers and a reference to its integers
Call(sp, m, ro, fx, rf) ==
  /\ pc = "idle"
  /\ calls < MaxCalls
  /\ pc' = Follow(pc)
  /\ mem' = m
  /\ args' = [stackCopyParam |-> sp, readOnlyDataPtr |-> ro,
              fixedAddressPtr |-> fx, referenceAlias |-> rf]
  /\ entry' = Snapshot(m)
  /\ ctorRuns' = NoRuns
  /\ dtorRuns' = NoRuns
  /\ trace' = <<>>
  /\ UNCHANGED <<calls, retval, persistentCounter, stackArray, heap, objects,
                 ints, useCount, faults, globals, typeVars>>

\* a local that is declared without static is initialized at every entry
AutoLocalDecl(cur) == PersistentCounterInit

\* static int persistentCounter = 6; it has its value 6 before the block is
\* first entered, and the declaration leaves the value alone ever after
StaticLocalDecl(cur) == cur

DeclPersistentCounter ==
  /\ pc = "L55"
  /\ pc' = Follow(pc)
  /\ persistentCounter' = StaticLocalDecl(persistentCounter)
  /\ UNCHANGED <<calls, args, mem, entry, retval, stackArray, heap, objects, ints,
                 useCount, ctorRuns, dtorRuns, trace, faults, globals, typeVars>>

DeclStackArray ==
  /\ pc = "L58"
  /\ pc' = Follow(pc)
  /\ stackArray' = StackArrayInit
  /\ UNCHANGED <<calls, args, mem, entry, retval, persistentCounter, heap, objects,
                 ints, useCount, ctorRuns, dtorRuns, trace, faults, globals, typeVars>>

\* std::make_shared<int>(42): one block holds the int and the control block
MakeShared ==
  /\ pc = "L63"
  /\ pc' = Follow(pc)
  /\ heap' = Acquire(heap, "efficientSharedInt", "make_shared", 1)
  /\ ints' = ints @@ ("efficientSharedInt" :> EfficientSharedValue)
  /\ useCount' = useCount @@ ("efficientSharedInt" :> 1)
  /\ UNCHANGED <<calls, args, mem, entry, retval, persistentCounter, stackArray,
                 objects, ctorRuns, dtorRuns, trace, faults, globals, typeVars>>

\* std::shared_ptr<int>(new int(24)): the int, then a control block of its own
TwoStepShared ==
  /\ pc = "L66"
  /\ pc' = Follow(pc)
  /\ heap' = Acquire(Acquire(heap, "twoStepSharedInt", "new", 1),
                     "twoStepSharedInt.control", "control_block", 1)
  /\ ints' = ints @@ ("twoStepSharedInt" :> TwoStepSharedValue)
  /\ useCount' = useCount @@ ("twoStepSharedInt" :> 1)
  /\ UNCHANGED <<calls, args, mem, entry, retval, persistentCounter, stackArray,
                 objects, ctorRuns, dtorRuns, trace, faults, globals, typeVars>>

\* std::make_unique<int>(36): new int(36), owned by the unique_ptr
MakeUnique ==
  /\ pc = "L69"
  /\ pc' = Follow(pc)
  /\ heap' = Acquire(heap, "exclusiveOwnershipInt", "new", 1)
  /\ ints' = ints @@ ("exclusiveOwnershipInt" :> ExclusiveValue)
  /\ UNCHANGED <<calls, args, mem, entry, retval, persistentCounter, stackArray,
                 objects, useCount, ctorRuns, dtorRuns, trace, faults, globals,
                 typeVars>>

\* new ResourceManager(10)
NewSingle ==
  /\ pc = "L74"
  /\ pc' = Follow(pc)
  /\ heap' = Acquire(heap, "singleHeapObject", "new", 1)
  /\ objects' = objects @@ ("singleHeapObject" :> <<CtorHandle(SingleHandle)>>)
  /\ ctorRuns' = [ctorRuns EXCEPT !["singleHeapObject"] = @ + 1]
  /\ UNCHANGED <<calls, args, mem, entry, retval, persistentCounter, stackArray,
                 ints, useCount, dtorRuns, trace, faults, globals, typeVars>>

\* new ResourceManager[10]: the default constructor runs on every element
NewArray ==
  /\ pc = "L78"
  /\ pc' = Follow(pc)
  /\ heap' = Acquire(heap, "heapObjectArray", "new[]", ArrayLen)
  /\ objects' = objects @@ ("heapObjectArray" :> [i \in 1..ArrayLen |-> CtorDefault])
  /\ ctorRuns' = [ctorRuns EXCEPT !["heapObjectArray"] = @ + ArrayLen]
  /\ UNCHANGED <<calls, args, mem, entry, retval, persistentCounter, stackArray,
                 ints, useCount, dtorRuns, trace, faults, globals, typeVars>>

\* a block held as ResourceManager objects although a constructor ran on each
ConstructedBlock == [i \in 1..MallocLen |-> CtorDefault]

\* malloc(10 * sizeof(ResourceManager)): storage for 10 objects, none constructed
MallocBlock == [i \in 1..MallocLen |-> RawObject]

Malloc ==
  /\ pc = "L82"
  /\ pc' = Follow(pc)
  /\ heap' = Acquire(heap, "uninitializedMemoryBlock", "malloc", MallocLen)
  /\ objects' = objects @@ ("uninitializedMemoryBlock" :> MallocBlock)
  /\ UNCHANGED <<calls, args, mem, entry, retval, persistentCounter, stackArray,
                 ints, useCount, ctorRuns, dtorRuns, trace, faults, globals,
                 typeVars>>

\* ResourceManager automaticObject(20)
AutoObject ==
  /\ pc = "L86"
  /\ pc' = Follow(pc)
  /\ heap' = Acquire(heap, "automaticObject", "automatic", 1)
  /\ objects' = objects @@ ("automaticObject" :> <<CtorHandle(AutomaticHandle)>>)
  /\ ctorRuns' = [ctorRuns EXCEPT !["automaticObject"] = @ + 1]
  /\ UNCHANGED <<calls, args, mem, entry, retval, persistentCounter, stackArray,
                 ints, useCount, dtorRuns, trace, faults, globals, typeVars>>

\* delete[] heapObjectArray written as delete heapObjectArray
DeleteArrayFormMutant == "delete"

\* delete[] heapObjectArray
DeleteArrayForm == "delete[]"

\* delete singleHeapObject left out
ForgetDeleteSingle ==
  /\ pc = "L91"
  /\ pc' = Follow(pc)
  /\ UNCHANGED <<calls, args, mem, entry, retval, persistentCounter, stackArray,
                 heap, objects, ints, useCount, ctorRuns, dtorRuns, trace, faults,
                 globals, typeVars>>

\* delete singleHeapObject
DeleteSingle ==
  /\ pc = "L91"
  /\ pc' = Follow(pc)
  /\ ReleaseSite("singleHeapObject", "delete")
  /\ UNCHANGED <<calls, args, mem, entry, retval, persistentCounter, stackArray,
                 ints, useCount, ctorRuns, globals, typeVars>>

DeleteArray ==
  /\ pc = "L92"
  /\ pc' = Follow(pc)
  /\ ReleaseSite("heapObjectArray", DeleteArrayForm)
  /\ UNCHANGED <<calls, args, mem, entry, retval, persistentCounter, stackArray,
                 ints, useCount, ctorRuns, globals, typeVars>>

\* free(uninitializedMemoryBlock)
Free ==
  /\ pc = "L93"
  /\ pc' = Follow(pc)
  /\ ReleaseSite("uninitializedMemoryBlock", "free")
  /\ UNCHANGED <<calls, args, mem, entry, retval, persistentCounter, stackArray,
                 ints, useCount, ctorRuns, globals, typeVars>>

\* the increment applied to the integer fixedAddressPtr designates as well
IncrementThroughPointer ==
  /\ pc = "L97"
  /\ pc' = Follow(pc)
  /\ persistentCounter' = persistentCounter + 1
  /\ mem' = [mem EXCEPT ![args.fixedAddressPtr] = @ + 1]
  /\ trace' = Append(trace, Event("increment", "persistentCounter"))
  /\ UNCHANGED <<calls, args, entry, retval, stackArray, heap, objects, ints,
                 useCount, ctorRuns, dtorRuns, faults, globals, typeVars>>

\* persistentCounter++
Increment ==
  /\ pc = "L97"
  /\ pc' = Follow(pc)
  /\ persistentCounter' = persistentCounter + 1
  /\ trace' = Append(trace, Event("increment", "persistentCounter"))
  /\ UNCHANGED <<calls, args, mem, entry, retval, stackArray, heap, objects, ints,
                 useCount, ctorRuns, dtorRuns, faults, globals, typeVars>>

\* stackArray[1]
SecondElement(arr) == arr[2]

\* stackArray[0]
FirstElement(arr) == arr[1]

\* return stackArray[0]: the result is read before any automatic object dies
ReturnExpr ==
  /\ pc = "L98"
  /\ pc' = Follow(pc)
  /\ retval' = Some(FirstElement(stackArray))
  /\ trace' = Append(trace, Event("read", "stackArray[0]"))
  /\ UNCHANGED <<calls, args, mem, entry, persistentCounter, stackArray, heap,
                 objects, ints, useCount, ctorRuns, dtorRuns, faults, globals,
                 typeVars>>

\* automaticObject leaves scope
DestroyAutomaticObject ==
  /\ pc = "~automaticObject"
  /\ pc' = Follow(pc)
  /\ ReleaseSite("automaticObject", "scope_exit")
  /\ UNCHANGED <<calls, args, mem, entry, retval, persistentCounter, stackArray,
                 ints, useCount, ctorRuns, globals, typeVars>>

\* ~unique_ptr: the default deleter applies delete to the int
DestroyExclusive ==
  /\ pc = "~exclusiveOwnershipInt"
  /\ pc' = Follow(pc)
  /\ faults' = faults \cup ReleaseFaults(heap, "exclusiveOwnershipInt", "delete")
  /\ heap' = Without(heap, "exclusiveOwnershipInt")
  /\ ints' = Without(ints, "exclusiveOwnershipInt")
  /\ trace' = Append(trace, Released(heap, "exclusiveOwnershipInt", "delete"))
  /\ UNCHANGED <<calls, args, mem, entry, retval, persistentCounter, stackArray,
                 objects, useCount, ctorRuns, dtorRuns, globals, typeVars>>

\* ~shared_ptr of twoStepSharedInt: the last owner deletes the int, then the
\* control block is released
DestroyTwoStep ==
  /\ pc = "~twoStepSharedInt"
  /\ pc' = Follow(pc)
  /\ IF useCount["twoStepSharedInt"] = 1
     THEN /\ useCount' = Without(useCount, "twoStepSharedInt")
          /\ faults' = faults
               \cup ReleaseFaults(heap, "twoStepSharedInt", "delete")
               \cup ReleaseFaults(heap, "twoStepSharedInt.control", "control_block")
          /\ heap' = Without(Without(heap, "twoStepSharedInt"), "twoStepSharedInt.control")
          /\ ints' = Without(ints, "twoStepSharedInt")
          /\ trace' = trace \o <<Released(heap, "twoStepSharedInt", "delete"),
                                 Released(heap, "twoStepSharedInt.control", "control_block")>>
     ELSE /\ useCount' = [useCount EXCEPT !["twoStepSharedInt"] = @ - 1]
          /\ UNCHANGED <<faults, heap, ints, trace>>
  /\ UNCHANGED <<calls, args, mem, entry, retval, persistentCounter, stackArray,
                 objects, ctorRuns, dtorRuns, globals, typeVars>>

\* ~shared_ptr of efficientSharedInt: the last owner destroys the int and
\* releases the one block
DestroyEfficient ==
  /\ pc = "~efficientSharedInt"
  /\ pc' = Follow(pc)
  /\ IF useCount["efficientSharedInt"] = 1
     THEN /\ useCount' = Without(useCount, "efficientSharedInt")
          /\ faults' = faults \cup ReleaseFaults(heap, "efficientSharedInt", "control_block")
          /\ heap' = Without(heap, "efficientSharedInt")
          /\ ints' = Without(ints, "efficientSharedInt")
          /\ trace' = Append(trace, Released(heap, "efficientSharedInt", "control_block"))
     ELSE /\ useCount' = [useCount EXCEPT !["efficientSharedInt"] = @ - 1]
          /\ UNCHANGED <<faults, heap, ints, trace>>
  /\ UNCHANGED <<calls, args, mem, entry, retval, persistentCounter, stackArray,
                 objects, ctorRuns, dtorRuns, globals, typeVars>>

\* the frame is left: stackArray ends, the caller has the result
ExitFrame ==
  /\ pc = "exit"
  /\ pc' = Follow(pc)
  /\ calls' = calls + 1
  /\ stackArray' = <<>>
  /\ UNCHANGED <<args, mem, entry, retval, persistentCounter, heap, objects, ints,
                 useCount, ctorRuns, dtorRuns, trace, faults, globals, typeVars>>

Next ==
  \/ \E sp \in Vals, m \in [Cells -> Vals], ro \in Cells, fx \in Cells, rf \in Cells :
       Call(sp, m, ro, fx, rf)
  \/ DeclPersistentCounter
  \/ DeclStackArray
  \/ MakeShared
  \/ TwoStepShared
  \/ MakeUnique
  \/ NewSingle
  \/ NewArray
  \/ Malloc
  \/ AutoObject
  \/ DeleteSingle
  \/ DeleteArray
  \/ Free
  \/ Increment
  \/ ReturnExpr
  \/ DestroyAutomaticObject
  \/ DestroyExclusive
  \/ DestroyTwoStep
  \/ DestroyEfficient
  \/ ExitFrame

Spec == Init /\ [][Next]_vars

\* --------------------------------------- creating ResourceManager objects
\* the default constructor declared under public:
DefaultCtorAccessMutant == "public"

\* private: ResourceManager();
DefaultCtorAccess == "private"

\* public: ResourceManager(int handle);
HandleCtorAccess == "public"

CtorAccess(ctor) ==
  CASE ctor = "ResourceManager(int)" -> HandleCtorAccess
    [] ctor = "ResourceManager()" -> DefaultCtorAccess

\* the constructor a creation form calls; malloc calls none
CtorNeeded(form) ==
  CASE form = "new" -> "ResourceManager(int)"
    [] form = "automatic" -> "ResourceManager(int)"
    [] form = "new[]" -> "ResourceManager()"
    [] form = "malloc" -> "none"

\* a private member is accessible to the members of the class alone (the
\* class declares no friend); a public member to every context
Accessible(ctor, ctx) ==
  \/ ctor = "none"
  \/ CtorAccess(ctor) = "public"
  \/ ctx = "ResourceManager"

Handles == 0..MaxHandle
Contexts == {"memoryAllocationDemo", "ResourceManager"}

Requests ==
  [ctx : Contexts, form : {"new", "automatic"}, handle : Handles, n : {1}]
    \cup [ctx : Contexts, form : {"new[]", "malloc"}, handle : {0}, n : 1..MaxArrayLen]

InitRoutineIdle ==
  /\ InitRoutine
  /\ mem = [c \in Cells |-> 0]

InitType ==
  /\ InitGlobals
  /\ InitRoutineIdle
  /\ req \in Requests
  /\ stage = "requested"
  /\ made = <<>>

\* the creation expression is checked: it is accepted when the constructor it
\* calls is accessible in the requesting context, and rejected otherwise
Translate ==
  /\ stage = "requested"
  /\ stage' = IF Accessible(CtorNeeded(req.form), req.ctx) THEN "accepted" ELSE "rejected"
  /\ UNCHANGED <<req, made, routineVars, globals>>

\* the objects an accepted creation expression yields
Yield(r) ==
  CASE r.form = "new" -> <<CtorHandle(r.handle)>>
    [] r.form = "automatic" -> <<CtorHandle(r.handle)>>
    [] r.form = "new[]" -> [i \in 1..r.n |-> CtorDefault]
    [] r.form = "malloc" -> [i \in 1..r.n |-> RawObject]

Create ==
  /\ stage = "accepted"
  /\ stage' = "constructed"
  /\ made' = Yield(req)
  /\ UNCHANGED <<req, routineVars, globals>>

\* the storage is released by the form matching its acquisition
Discard ==
  /\ stage = "constructed"
  /\ stage' = "released"
  /\ made' = <<>>
  /\ UNCHANGED <<req, routineVars, globals>>

NextType == Translate \/ Create \/ Discard

SpecType == InitType /\ [][NextType]_vars

\* ================================================================= claims
After(label) == Position(pc) > Position(label)

Sum(runs) ==
  runs["singleHeapObject"] + runs["heapObjectArray"]
    + runs["uninitializedMemoryBlock"] + runs["automaticObject"]

Releases == SelectSeq(trace, LAMBDA e : e.ev = "release")

\* C1: every call returns 0, the first element of stackArray as initialized,
\* whatever the arguments and however many calls came before.
C1_ReturnsFirstElement ==
  /\ (After("L98") \/ calls > 0) => retval = <<0>>
  /\ retval \in {<<>>, <<0>>}

C1_Witness ==
  /\ pc = "idle"
  /\ calls = 2
  /\ retval = <<0>>
  /\ args.stackCopyParam = 1
  /\ mem[args.readOnlyDataPtr] = 1
  /\ mem[args.fixedAddressPtr] = 0
  /\ args.referenceAlias # args.fixedAddressPtr

\* C2: persistentCounter is 6 before the first call and one more per completed
\* call: 6 + N after N calls, and no later entry sets it back.
C2_CounterCounts ==
  persistentCounter = 6 + calls + (IF After("L97") THEN 1 ELSE 0)

C2_Witness ==
  /\ calls = 2
  /\ pc = "L58"
  /\ persistentCounter = 8

\* C3: when a call returns no storage acquired during it is live: the live set
\* is what it was before the call.
C3_NoLeak ==
  pc \in {"idle", "exit"} =>
    /\ DOMAIN heap = {}
    /\ DOMAIN objects = {}
    /\ DOMAIN ints = {}
    /\ DOMAIN useCount = {}

C3_Witness ==
  /\ pc = "exit"
  /\ calls = 1
  /\ DOMAIN heap = {}
  /\ {e.id : e \in {Releases[i] : i \in 1..Len(Releases)}} =
       {"efficientSharedInt", "twoStepSharedInt", "twoStepSharedInt.control",
        "exclusiveOwnershipInt", "singleHeapObject", "heapObjectArray",
        "uninitializedMemoryBlock", "automaticObject"}

\* C4: every release uses the form matching the acquisition: new with delete,
\* new[] with delete[], malloc with free; no mismatched release is reachable.
C4_MatchedRelease ==
  /\ "mismatched_release" \notin faults
  /\ \A i \in 1..Len(Releases) :
       <<Releases[i].form, Releases[i].by>> \in
         {<<"new", "delete">>, <<"new[]", "delete[]">>, <<"malloc", "free">>,
          <<"automatic", "scope_exit">>, <<"make_shared", "control_block">>,
          <<"control_block", "control_block">>}

C4_Witness ==
  /\ pc = "L97"
  /\ Len(Releases) = 3
  /\ Releases[1] = [ev |-> "release", id |-> "singleHeapObject", form |-> "new", by |-> "delete"]
  /\ Releases[2] = [ev |-> "release", id |-> "heapObjectArray", form |-> "new[]", by |-> "delete[]"]
  /\ Releases[3] = [ev |-> "release", id |-> "uninitializedMemoryBlock", form |-> "malloc", by |-> "free"]

\* C5: an object made by ResourceManager(int) with handle h has instanceId 5
\* and resourceHandle h for as long as it lives; with h = 42 these are 5 and 42
\* up to the release.
C5_HandleConstruction ==
  (stage = "constructed" /\ req.form \in {"new", "automatic"}) =>
    made = <<[instanceId |-> <<5>>, resourceHandle |-> <<req.handle>>]>>

C5_Witness ==
  /\ stage = "constructed"
  /\ req.form = "new"
  /\ req.ctx = "memoryAllocationDemo"
  /\ req.handle = 42
  /\ made = <<[instanceId |-> <<5>>, resourceHandle |-> <<42>>]>>

\* C6: new ResourceManager[n] requested outside the class is rejected, for the
\* default constructor is inaccessible there, and yields no object; every
\* constructed object made outside the class comes from the handle constructor.
C6_ArrayRejectedOutside ==
  /\ (req.form = "new[]" /\ req.ctx # "ResourceManager") =>
       /\ stage \in {"requested", "rejected"}
       /\ made = <<>>
  /\ (req.ctx # "ResourceManager" /\ stage = "constructed"
        /\ \E i \in 1..Len(made) : made[i].instanceId # Indeterminate) =>
       /\ req.form \in {"new", "automatic"}
       /\ Len(made) = 1
       /\ made[1].resourceHandle = <<req.handle>>

C6_Witness ==
  /\ stage = "rejected"
  /\ req.form = "new[]"
  /\ req.ctx = "memoryAllocationDemo"
  /\ req.n = 10
  /\ made = <<>>

C8_BlockStaysRaw ==
  /\ ctorRuns["uninitializedMemoryBlock"] = 0
  /\ dtorRuns["uninitializedMemoryBlock"] = 0
  /\ "uninitializedMemoryBlock" \in DOMAIN heap =>
       /\ heap["uninitializedMemoryBlock"].form = "malloc"
       /\ Len(objects["uninitializedMemoryBlock"]) = 10
       /\ \A i \in 1..10 :
            objects["uninitializedMemoryBlock"][i] =
              [instanceId |-> <<>>, resourceHandle |-> <<>>]

C8_Witness ==
  /\ pc = "L93"
  /\ "uninitializedMemoryBlock" \in DOMAIN heap
  /\ objects["uninitializedMemoryBlock"][10].instanceId = <<>>
  /\ "heapObjectArray" \notin DOMAIN heap

ExpectedTrace ==
  <<[ev |-> "release", id |-> "singleHeapObject", form |-> "new", by |-> "delete"],
    [ev |-> "release", id |-> "heapObjectArray", form |-> "new[]", by |-> "delete[]"],
    [ev |-> "release", id |-> "uninitializedMemoryBlock", form |-> "malloc", by |-> "free"],
    [ev |-> "increment", id |-> "persistentCounter", form |-> "", by |-> ""],
    [ev |-> "read", id |-> "stackArray[0]", form |-> "", by |-> ""],
    [ev |-> "release", id |-> "automaticObject", form |-> "automatic", by |-> "scope_exit"],
    [ev |-> "release", id |-> "exclusiveOwnershipInt", form |-> "new", by |-> "delete"],
    [ev |-> "release", id |-> "twoStepSharedInt", form |-> "new", by |-> "delete"],
    [ev |-> "release", id |-> "twoStepSharedInt.control", form |-> "control_block",
     by |-> "control_block"],
    [ev |-> "release", id |-> "efficientSharedInt", form |-> "make_shared",
     by |-> "control_block"]>>

\* C10: within a call the releases, the increment and the read of the result
\* come in one fixed order, every storage is released exactly once and none is
\* released or used after its release.
C10_ReleaseOrder ==
  /\ Len(trace) <= Len(ExpectedTrace)
  /\ trace = SubSeq(ExpectedTrace, 1, Len(trace))
  /\ pc = "exit" => trace = ExpectedTrace
  /\ faults = {}
  /\ \A i \in 1..Len(Releases) : Releases[i].form # "none"

C10_Witness ==
  /\ pc = "exit"
  /\ calls = 1
  /\ trace = ExpectedTrace
  /\ DOMAIN heap = {}

====
